---- MODULE Spec2Model ----
(***************************************************************************)
(* A model of src/index.js, the GitHubRepoLister class: client             *)
(* construction, run(), getUserRepos(), processRepositories(),             *)
(* processConcurrently(), getRepoCommitInfo() and generateCSV().           *)
(*                                                                         *)
(* JavaScript runs one synchronous segment at a time; a segment ends at    *)
(* an await on a remote call.  Each action below is one such segment: the  *)
(* code from one resumption up to the next await.                          *)
(***************************************************************************)
EXTENDS Integers, Sequences, FiniteSets, TLC

\* ------------------------------------------------------------- bounds
\* Longest repository listing explored.
MaxN == 3
\* Largest concurrency limit passed to processConcurrently by a direct caller.
MaxLimit == 3
\* Items per listing page (the code asks for per_page: 100; scaled down).
PerPage == 2
\* Chunk starts explored when the loop index does not advance (limit <= 0).
MaxSpin == 3

\* ------------------------------------------------- program constants
\* const FETCH_COMMIT_COUNT = false;
FETCH_COMMIT_COUNT == FALSE
\* const CONCURRENCY_LIMIT = 10;
CONCURRENCY_LIMIT == 10

\* JavaScript null.
NULL == "<null>"

Min(a, b) == IF a < b THEN a ELSE b
Max(a, b) == IF a > b THEN a ELSE b

\* ------------------------------------------------ the remote account
\* Repository names of the account; repository k is Names[k].
Names == <<"alpha", "beta", "gamma", "delta", "epsilon">>

IndexOf(name) == CHOOSE k \in 1..Len(Names) : Names[k] = name

\* The descriptor the listing endpoints return for repository k.  The
\* fields are the ones processRepo reads; their values vary with k so that
\* every branch of processRepo (fork with and without parent, null
\* description, null language) occurs.
Repo(k) ==
  [ name             |-> Names[k],
    full_name        |-> "me/" \o Names[k],
    owner            |-> "me",
    private          |-> (k % 2 = 0),
    archived         |-> (k % 3 = 0),
    fork             |-> (k % 2 = 1),
    parent           |-> IF k = 1 THEN "up/alpha" ELSE NULL,
    description      |-> IF k % 2 = 0 THEN NULL ELSE "about " \o Names[k],
    html_url         |-> "https://github.com/me/" \o Names[k],
    stargazers_count |-> k,
    forks_count      |-> k - 1,
    language         |-> IF k = 2 THEN NULL ELSE "JavaScript",
    size             |-> 10 * k,
    created_at       |-> "2020-01-0" \o ToString(k),
    updated_at       |-> "2024-06-0" \o ToString(k) ]

\* The commit history of a repository's default branch at the remote
\* service, most recent first (committer dates).
History(name) ==
  LET k == IndexOf(name)
  IN  CASE k % 3 = 1 -> <<"2024-03-0" \o ToString(k), "2024-01-01">>
        [] k % 3 = 2 -> <<>>
        [] OTHER     -> <<"2023-05-0" \o ToString(k)>>

\* The listings explored: up to MaxN consecutive repositories of the
\* account, starting anywhere (cyclically), so items are distinct.
Listing(start, n) == [j \in 1..n |-> Repo(((start + j - 2) % MaxN) + 1)]

Listings == {Listing(s, n) : s \in 1..MaxN, n \in 0..MaxN}

\* Processors a direct caller passes to processConcurrently.
Processors == {"processRepo", "raising"}

\* Limits a direct caller passes to processConcurrently.
Limits == (0 - 1)..MaxLimit

VARIABLES
  pc,               \* position of the program: see the actions
  exitCode,         \* the process's exit code (meaningful once pc is "done" or "exited")
  remoteCalls,      \* remote requests issued so far
  account,          \* the complete listing held by the remote service
  fetchCommitCount, \* the build's FETCH_COMMIT_COUNT flag
  fetched,          \* getUserRepos: pages accumulated by paginate
  repos,            \* the items passed to processConcurrently
  concurrency,      \* processConcurrently: the concurrency argument
  rpc,              \* processConcurrently: "idle", "await", "returned", "rejected"
  i,                \* processConcurrently: loop index (0-based)
  results,          \* processConcurrently: results
  batch,            \* processConcurrently: the batch being awaited
  task,             \* transforms started: position -> [st, item, commits, calls, pending, out]
  fate,             \* position -> how the remote service answers for that item
  log,              \* progress lines <<position, total, name>>
  invocations,      \* processor invocations of the current call
  chunkStarts,      \* loop iterations entered by the current call
  csvCalls,         \* writeRecords invocations
  csvRecords,       \* the records handed to writeRecords
  callNo,           \* direct caller: 1 for the first call, 2 for the repeated one
  prevResults,      \* direct caller: what the first call returned
  octokit,          \* this.octokit: NULL until initializeClient has a token
  username,         \* run's username argument: "unset", "missing" or "given"
  processor,        \* processConcurrently: the processor argument
  rejection,        \* processConcurrently: position whose failure rejected it (0: none)
  events            \* launch events in order: <<"progress" | "invoke", position, total, name>>

vars == <<pc, exitCode, remoteCalls, account, fetchCommitCount, fetched, repos,
          concurrency, rpc, i, results, batch, task, fate, log, invocations,
          chunkStarts, csvCalls, csvRecords, callNo, prevResults, octokit,
          username, processor, rejection, events>>

progVars == <<pc, exitCode, fetched, csvCalls, csvRecords>>
runnerVars == <<repos, processor, concurrency, rpc, rejection, i, results, batch,
                task, log, events, invocations, chunkStarts>>
callerVars == <<callNo, prevResults>>


\* ----------------------------------------------------- pure functions
\* A faulty variant of Slice: the end index is taken inclusively.
SliceInclusive(arr, start, end) ==
  LET len  == Len(arr)
      from == IF start < 0 THEN Max(len + start, 0) ELSE Min(start, len)
      to   == IF end + 1 < 0 THEN Max(len + end + 1, 0) ELSE Min(end + 1, len)
  IN  SubSeq(arr, from + 1, to)

\* Array.prototype.slice(start, end): negative arguments count from the
\* end, both are clamped to 0..length, and an end before start gives [].
Slice(arr, start, end) ==
  LET len  == Len(arr)
      from == IF start < 0 THEN Max(len + start, 0) ELSE Min(start, len)
      to   == IF end < 0 THEN Max(len + end, 0) ELSE Min(end, len)
  IN  SubSeq(arr, from + 1, to)

\* const globalIndex = i + index;   (0-based, as in the code)
GlobalIndex(idx, index) == idx + index

\* A faulty variant of NextI: the update skips one item more.
NextISkip(idx, c) == idx + c + 1

\* A faulty variant of NextI: i++
NextIByOne(idx, c) == idx + 1

\* The for statement's update: i += concurrency
NextI(idx, c) == idx + c

\* A faulty variant of Push: unshift instead of push.
PushFront(res, batchResults) == batchResults \o res

\* results.push(...batchResults)
Push(res, batchResults) == res \o batchResults

\* The remote service's answer to listCommits with per_page for the
\* repository's default branch: the per_page most recent commits.
ListCommits(name, perPage) ==
  SubSeq(History(name), 1, Min(perPage, Len(History(name))))

\* A faulty variant of CommitInfo: the count is taken from the per_page: 1
\* response instead of the paginated history.
CommitInfoCountsPage(commits, allCommits, flag) ==
  [ commitCount    |-> IF flag THEN Len(commits) ELSE 0 - 1,
    lastCommitDate |-> IF Len(commits) > 0 THEN commits[1] ELSE NULL ]

\* A faulty variant of CommitInfo: without the flag the count is 0.
CommitInfoZeroWhenOff(commits, allCommits, flag) ==
  [ commitCount    |-> IF flag THEN Len(allCommits) ELSE 0,
    lastCommitDate |-> IF Len(commits) > 0 THEN commits[1] ELSE NULL ]

\* getRepoCommitInfo's return value on the try path: commits is the
\* per_page: 1 response, allCommits the paginated history ([] when the
\* flag is off).
CommitInfo(commits, allCommits, flag) ==
  [ commitCount    |-> IF flag THEN Len(allCommits) ELSE 0 - 1,
    lastCommitDate |-> IF Len(commits) > 0 THEN commits[1] ELSE NULL ]

\* A faulty variant of CommitInfoFailed: the sentinel instead of zero.
CommitInfoFailedSentinel == [commitCount |-> 0 - 1, lastCommitDate |-> NULL]

\* getRepoCommitInfo's return value on the catch path.
CommitInfoFailed == [commitCount |-> 0, lastCommitDate |-> NULL]

\* a || b for a nullable string a
OrElse(a, b) == IF a = NULL \/ a = "" THEN b ELSE a

\* A faulty variant of RepoData: a repository without a commit date is
\* reported with no stars.
RepoDataStarsFromEnrichment(repo, commitInfo) ==
  [ name           |-> repo.name,
    fullName       |-> repo.full_name,
    private        |-> repo.private,
    archived       |-> repo.archived,
    fork           |-> repo.fork,
    forkedFrom     |-> IF repo.fork /\ repo.parent # NULL THEN repo.parent ELSE "",
    description    |-> OrElse(repo.description, ""),
    url            |-> repo.html_url,
    stars          |-> IF commitInfo.lastCommitDate = NULL
                       THEN 0 ELSE repo.stargazers_count,
    forks          |-> repo.forks_count,
    language       |-> OrElse(repo.language, "N/A"),
    createdAt      |-> repo.created_at,
    updatedAt      |-> repo.updated_at,
    commitCount    |-> commitInfo.commitCount,
    lastCommitDate |-> commitInfo.lastCommitDate,
    size           |-> repo.size ]

\* processRepo's repoData, from the descriptor and the commit info.
RepoData(repo, commitInfo) ==
  [ name           |-> repo.name,
    fullName       |-> repo.full_name,
    private        |-> repo.private,
    archived       |-> repo.archived,
    fork           |-> repo.fork,
    forkedFrom     |-> IF repo.fork /\ repo.parent # NULL THEN repo.parent ELSE "",
    description    |-> OrElse(repo.description, ""),
    url            |-> repo.html_url,
    stars          |-> repo.stargazers_count,
    forks          |-> repo.forks_count,
    language       |-> OrElse(repo.language, "N/A"),
    createdAt      |-> repo.created_at,
    updatedAt      |-> repo.updated_at,
    commitCount    |-> commitInfo.commitCount,
    lastCommitDate |-> commitInfo.lastCommitDate,
    size           |-> repo.size ]

\* ------------------------------------------------------------- state
Init ==
  /\ pc = "new"
  /\ exitCode = 0
  /\ remoteCalls = 0
  /\ account \in Listings
  /\ fetchCommitCount \in {FETCH_COMMIT_COUNT, ~FETCH_COMMIT_COUNT}
  /\ fetched = <<>>
  /\ repos = <<>>
  /\ concurrency = CONCURRENCY_LIMIT
  /\ rpc = "idle"
  /\ i = 0
  /\ results = <<>>
  /\ batch = <<>>
  /\ task = <<>>
  /\ fate = [g \in 1..Len(account) |-> "unknown"]
  /\ log = <<>>
  /\ invocations = 0
  /\ chunkStarts = 0
  /\ csvCalls = 0
  /\ csvRecords = <<>>
  /\ callNo = 1
  /\ prevResults = <<>>
  /\ octokit = NULL
  /\ username = "unset"
  /\ processor = "processRepo"
  /\ rejection = 0
  /\ events = <<>>

\* process.exit(1)
Exit1 ==
  /\ pc' = "exited"
  /\ exitCode' = 1

\* ------------------------------------------------ processConcurrently
\* A faulty variant of LaunchEvents: the processor is called before the
\* progress line is printed.
LaunchEventsInvokeFirst(pos, total, name) ==
  << <<"invoke", pos, total, name>>, <<"progress", pos, total, name>> >>

\* What the arrow function passed to batch.map does for one item, in
\* order: console.log(`Processing ${globalIndex + 1}/${items.length}:
\* ${item.name}`), then processor(item, globalIndex).
LaunchEvents(pos, total, name) ==
  << <<"progress", pos, total, name>>, <<"invoke", pos, total, name>> >>

\* The positions (1-based) of the transforms of a batch launched at idx.
BatchPositions(idx, b) == [j \in 1..Len(b) |-> GlobalIndex(idx, j - 1) + 1]

\* A faulty variant of AllSettled: the batch's promises are not awaited,
\* only created.
AllStarted ==
  \A j \in 1..Len(batch) : BatchPositions(i, batch)[j] \in DOMAIN task

\* A faulty variant of AllSettled: the await waits for a transform of
\* every item, not only of the batch's.
AllItemsSettled ==
  \A g \in 1..Len(repos) : g \in DOMAIN task /\ task[g].st = "done"

\* The transforms Promise.all(batchPromises) waits for have all settled.
AllSettled ==
  \A j \in 1..Len(batch) :
    LET g == BatchPositions(i, batch)[j]
    IN  g \in DOMAIN task /\ task[g].st = "done"

\* The outputs of the transforms at the given positions, in that order
\* (out holds the one output of a settled transform).
RECURSIVE Outputs(_, _)
Outputs(positions, tk) ==
  IF positions = <<>>
  THEN <<>>
  ELSE tk[Head(positions)].out \o Outputs(Tail(positions), tk)

\* The value of await Promise.all(batchPromises): the transforms' outputs
\* in the batch's order, whatever order they settled in.
PromiseAll == Outputs(BatchPositions(i, batch), task)

\* A faulty variant of LoopTest: i <= items.length
LoopTestInclusive(idx, items) == idx <= Len(items)

\* The for statement's test: i < items.length
LoopTest(idx, items) == idx < Len(items)

\* The batches the for statement takes from loop index idx on, for a
\* limit c >= 1: while i < items.length, items.slice(i, i + c), then
\* i += c.
RECURSIVE Chunks(_, _, _)
Chunks(items, c, idx) ==
  IF LoopTest(idx, items)
  THEN <<Slice(items, idx, idx + c)>> \o Chunks(items, c, NextI(idx, c))
  ELSE <<>>

\* The for statement from its test on, with loop index idx and results res:
\* either one more iteration up to its await (batch = slice, map launches
\* every transform of the batch: the progress line, then processor(item,
\* globalIndex), which runs processRepo and getRepoCommitInfo up to the
\* repos.get request), or return results.
Iterate(items, c, idx, res, tk, lg, ev, inv, cs) ==
  /\ i' = idx
  /\ results' = res
  /\ rejection' = 0
  /\ IF LoopTest(idx, items)
     THEN LET b   == Slice(items, idx, idx + c)
              pos == BatchPositions(idx, b)
              at  == {pos[j] : j \in 1..Len(b)}
          IN  /\ batch' = b
              /\ task' = [g \in DOMAIN tk \cup at |->
                            IF g \in at
                            THEN [ st      |-> "get",
                                   item    |-> b[CHOOSE j \in 1..Len(b) : pos[j] = g],
                                   commits |-> <<>>,
                                   calls   |-> <<"get">>,
                                   pending |-> 1,
                                   out     |-> <<>> ]
                            ELSE tk[g]]
              /\ log' = lg \o [j \in 1..Len(b) |-> <<pos[j], Len(items), b[j].name>>]
              /\ events' = ev \o [k \in 1..(2 * Len(b)) |->
                                   LET j == (k + 1) \div 2
                                   IN  LaunchEvents(pos[j], Len(items), b[j].name)[2 - (k % 2)]]
              /\ invocations' = inv + Len(b)
              /\ remoteCalls' = remoteCalls + Len(b)
              /\ chunkStarts' = cs + 1
              /\ rpc' = "await"
     ELSE /\ batch' = <<>>
          /\ task' = tk
          /\ log' = lg
          /\ events' = ev
          /\ invocations' = inv
          /\ remoteCalls' = remoteCalls
          /\ chunkStarts' = cs
          /\ rpc' = "returned"

\* processConcurrently(items, processor, concurrency): const results = [],
\* let i = 0, and the loop up to its first await or the return.
ProcessConcurrently(items, proc, c) ==
  /\ repos' = items
  /\ processor' = proc
  /\ concurrency' = c
  /\ Iterate(items, c, 0, <<>>, <<>>, <<>>, <<>>, 0, 0)

\* The resumption after await Promise.all: push the batch's results,
\* i += concurrency, and the loop up to its next await or the return.
Resume ==
  /\ rpc = "await"
  /\ AllSettled
  /\ concurrency >= 1 \/ chunkStarts < MaxSpin
  /\ Iterate(repos, concurrency, NextI(i, concurrency), Push(results, PromiseAll),
             task, log, events, invocations, chunkStarts)
  /\ UNCHANGED <<repos, processor, concurrency, fate, account, fetchCommitCount,
                 octokit, username>>
  /\ UNCHANGED progVars
  /\ UNCHANGED callerVars


\* --------------------------------- processRepo and getRepoCommitInfo
\* The transform at position g is suspended at the remote call named st.
Awaiting(g, st) == g \in DOMAIN task /\ task[g].st = st

\* getRepoCommitInfo returns info; processRepo builds repoData from it and
\* returns it, which settles the batch promise of position g.
Settle(g, info) ==
  task' = [task EXCEPT ![g].st = "done", ![g].pending = @ - 1,
                       ![g].out = <<RepoData(task[g].item, info)>>]

\* repos.get answers: defaultBranch is read and listCommits (per_page: 1)
\* is requested.
RepoGetOk(g) ==
  /\ Awaiting(g, "get")
  /\ fate[g] # "detailFail"
  /\ task' = [task EXCEPT ![g].st = "commits",
                           ![g].calls = Append(@, "commits"),
                           ![g].pending = @ - 1 + 1]
  /\ remoteCalls' = remoteCalls + 1
  /\ UNCHANGED <<repos, processor, concurrency, rpc, rejection, i, results, batch, log, events, invocations,
                 chunkStarts, fate, account, fetchCommitCount, octokit, username>>
  /\ UNCHANGED progVars
  /\ UNCHANGED callerVars

\* A faulty variant of RepoGetFail: the failure of repos.get is ignored and
\* listCommits is requested all the same.
RepoGetFailGoesOn(g) ==
  /\ Awaiting(g, "get")
  /\ fate[g] \in {"unknown", "detailFail"}
  /\ fate' = [fate EXCEPT ![g] = "detailFail"]
  /\ task' = [task EXCEPT ![g].st = "commits",
                           ![g].calls = Append(@, "commits"),
                           ![g].pending = @ - 1 + 1]
  /\ remoteCalls' = remoteCalls + 1
  /\ UNCHANGED <<repos, processor, concurrency, rpc, rejection, i, results, batch, log, events, invocations,
                 chunkStarts, account, fetchCommitCount, octokit, username>>
  /\ UNCHANGED progVars
  /\ UNCHANGED callerVars

\* repos.get rejects: the catch block returns the zero record.
RepoGetFail(g) ==
  /\ Awaiting(g, "get")
  /\ fate[g] \in {"unknown", "detailFail"}
  /\ fate' = [fate EXCEPT ![g] = "detailFail"]
  /\ Settle(g, CommitInfoFailed)
  /\ UNCHANGED <<repos, processor, concurrency, rpc, rejection, i, results, batch, log, events, invocations,
                 chunkStarts, remoteCalls, account, fetchCommitCount, octokit, username>>
  /\ UNCHANGED progVars
  /\ UNCHANGED callerVars

\* listCommits (per_page: 1) answers: with the flag on the history is
\* paginated next, with the flag off the record is returned.
ListCommitsOk(g) ==
  /\ Awaiting(g, "commits")
  /\ fate[g] # "commitsFail"
  /\ LET commits == ListCommits(task[g].item.name, 1)
     IN  IF fetchCommitCount
         THEN /\ task' = [task EXCEPT ![g].st = "paginate", ![g].commits = commits,
                                        ![g].calls = Append(@, "paginate"),
                                        ![g].pending = @ - 1 + 1]
              /\ remoteCalls' = remoteCalls + 1
              /\ fate' = fate
         ELSE /\ Settle(g, CommitInfo(commits, <<>>, fetchCommitCount))
              /\ remoteCalls' = remoteCalls
              /\ fate' = [fate EXCEPT ![g] = "ok"]
  /\ UNCHANGED <<repos, processor, concurrency, rpc, rejection, i, results, batch, log, events, invocations,
                 chunkStarts, account, fetchCommitCount, octokit, username>>
  /\ UNCHANGED progVars
  /\ UNCHANGED callerVars

\* listCommits (per_page: 1) rejects.
ListCommitsFail(g) ==
  /\ Awaiting(g, "commits")
  /\ fate[g] \in {"unknown", "commitsFail"}
  /\ fate' = [fate EXCEPT ![g] = "commitsFail"]
  /\ Settle(g, CommitInfoFailed)
  /\ UNCHANGED <<repos, processor, concurrency, rpc, rejection, i, results, batch, log, events, invocations,
                 chunkStarts, remoteCalls, account, fetchCommitCount, octokit, username>>
  /\ UNCHANGED progVars
  /\ UNCHANGED callerVars

\* paginate(listCommits) answers with the whole history (flag on only).
PaginateOk(g) ==
  /\ Awaiting(g, "paginate")
  /\ fate[g] # "pageFail"
  /\ LET name       == task[g].item.name
         allCommits == ListCommits(name, Len(History(name)))
     IN  Settle(g, CommitInfo(task[g].commits, allCommits, fetchCommitCount))
  /\ fate' = [fate EXCEPT ![g] = "ok"]
  /\ UNCHANGED <<repos, processor, concurrency, rpc, rejection, i, results, batch, log, events, invocations,
                 chunkStarts, remoteCalls, account, fetchCommitCount, octokit, username>>
  /\ UNCHANGED progVars
  /\ UNCHANGED callerVars

\* paginate(listCommits) rejects (flag on only).
PaginateFail(g) ==
  /\ Awaiting(g, "paginate")
  /\ fate[g] \in {"unknown", "pageFail"}
  /\ fate' = [fate EXCEPT ![g] = "pageFail"]
  /\ Settle(g, CommitInfoFailed)
  /\ UNCHANGED <<repos, processor, concurrency, rpc, rejection, i, results, batch, log, events, invocations,
                 chunkStarts, remoteCalls, account, fetchCommitCount, octokit, username>>
  /\ UNCHANGED progVars
  /\ UNCHANGED callerVars

\* A faulty variant of TransformRaises: the rejection is not propagated
\* (the batch is awaited with Promise.allSettled).
TransformRaisesSwallowed(g) ==
  /\ processor = "raising"
  /\ g \in DOMAIN task
  /\ task[g].st \in {"get", "commits", "paginate"}
  /\ fate[g] = "unknown"
  /\ fate' = [fate EXCEPT ![g] = "raised"]
  /\ task' = [task EXCEPT ![g].st = "raised", ![g].pending = @ - 1]
  /\ UNCHANGED <<repos, processor, concurrency, rpc, rejection, i, results, batch,
                 log, events, invocations, chunkStarts, remoteCalls, account,
                 fetchCommitCount, octokit, username>>
  /\ UNCHANGED progVars
  /\ UNCHANGED callerVars

\* A direct caller's "raising" processor throws when it resumes after a
\* remote call: its batch promise rejects, Promise.all(batchPromises)
\* rejects with that failure at once, the await in processConcurrently
\* throws and the call rejects.  The batch's other transforms run on.
TransformRaises(g) ==
  /\ processor = "raising"
  /\ g \in DOMAIN task
  /\ task[g].st \in {"get", "commits", "paginate"}
  /\ fate[g] = "unknown"
  /\ fate' = [fate EXCEPT ![g] = "raised"]
  /\ task' = [task EXCEPT ![g].st = "raised", ![g].pending = @ - 1]
  /\ IF rpc = "await"
     THEN rpc' = "rejected" /\ rejection' = g
     ELSE rpc' = rpc /\ rejection' = rejection
  /\ UNCHANGED <<repos, processor, concurrency, i, results, batch, log, events,
                 invocations, chunkStarts, remoteCalls, account, fetchCommitCount,
                 octokit, username>>
  /\ UNCHANGED progVars
  /\ UNCHANGED callerVars

\* ------------------------------------------------------- the program
\* new GitHubRepoLister(): initializeClient reads the token from the
\* environment, else from credentials.json; without one it exits.
Construct ==
  /\ pc = "new"
  /\ \E env \in BOOLEAN, file \in BOOLEAN :
       IF env \/ file
       THEN pc' = "ready" /\ exitCode' = exitCode /\ octokit' = "Octokit"
       ELSE Exit1 /\ octokit' = octokit
  /\ UNCHANGED <<fetched, csvCalls, csvRecords, remoteCalls, fate, account,
                 fetchCommitCount, username>>
  /\ UNCHANGED runnerVars
  /\ UNCHANGED callerVars

\* A faulty variant of Run: the identity lookup is requested before the
\* username is tested.
RunLooksUpFirst ==
  /\ pc = "ready"
  /\ \E given \in BOOLEAN :
       IF given
       THEN /\ username' = "given"
            /\ pc' = "auth" /\ exitCode' = exitCode /\ remoteCalls' = remoteCalls + 1
       ELSE /\ username' = "missing"
            /\ Exit1 /\ remoteCalls' = remoteCalls + 1
  /\ UNCHANGED <<fetched, csvCalls, csvRecords, fate, account, fetchCommitCount,
                 octokit>>
  /\ UNCHANGED runnerVars
  /\ UNCHANGED callerVars

\* run(username): without a username it exits, else it requests
\* users.getAuthenticated.
Run ==
  /\ pc = "ready"
  /\ \E given \in BOOLEAN :
       IF given
       THEN /\ username' = "given"
            /\ pc' = "auth" /\ exitCode' = exitCode /\ remoteCalls' = remoteCalls + 1
       ELSE /\ username' = "missing"
            /\ Exit1 /\ remoteCalls' = remoteCalls
  /\ UNCHANGED <<fetched, csvCalls, csvRecords, fate, account, fetchCommitCount,
                 octokit>>
  /\ UNCHANGED runnerVars
  /\ UNCHANGED callerVars

\* run's getAuthenticated answers: processRepositories calls getUserRepos,
\* which requests users.getAuthenticated again.
AuthOk ==
  /\ pc = "auth"
  /\ pc' = "userAuth"
  /\ remoteCalls' = remoteCalls + 1
  /\ UNCHANGED <<exitCode, fetched, csvCalls, csvRecords, fate, account,
                 fetchCommitCount, octokit, username>>
  /\ UNCHANGED runnerVars
  /\ UNCHANGED callerVars

\* run's getAuthenticated rejects: run's catch block exits.
AuthFail ==
  /\ pc = "auth"
  /\ Exit1
  /\ UNCHANGED <<fetched, csvCalls, csvRecords, remoteCalls, fate, account,
                 fetchCommitCount, octokit, username>>
  /\ UNCHANGED runnerVars
  /\ UNCHANGED callerVars

\* getUserRepos' getAuthenticated answers: paginate requests the first page.
\* (listForAuthenticatedUser or listForUser, by isOwnRepos: both are
\* paginated alike and are not told apart here.)
UserAuthOk ==
  /\ pc = "userAuth"
  /\ pc' = "listing"
  /\ remoteCalls' = remoteCalls + 1
  /\ UNCHANGED <<exitCode, fetched, csvCalls, csvRecords, fate, account,
                 fetchCommitCount, octokit, username>>
  /\ UNCHANGED runnerVars
  /\ UNCHANGED callerVars

\* getUserRepos' getAuthenticated rejects: getUserRepos rethrows, run exits.
UserAuthFail ==
  /\ pc = "userAuth"
  /\ Exit1
  /\ UNCHANGED <<fetched, csvCalls, csvRecords, remoteCalls, fate, account,
                 fetchCommitCount, octokit, username>>
  /\ UNCHANGED runnerVars
  /\ UNCHANGED callerVars

\* A faulty variant of ListPageOk: the first page is taken for the whole
\* listing (a plain request instead of paginate).
ListPageOkFirstPage ==
  /\ pc = "listing"
  /\ LET page == SubSeq(account, Len(fetched) + 1,
                        Min(Len(fetched) + PerPage, Len(account)))
     IN  /\ fetched' = fetched \o page
         /\ repos' = fetched \o page
  /\ pc' = "listed"
  /\ UNCHANGED <<exitCode, csvCalls, csvRecords, fate, account, fetchCommitCount, octokit, username,
                 remoteCalls>>
  /\ UNCHANGED <<processor, concurrency, rpc, rejection, i, results, batch, task, log, events, invocations,
                 chunkStarts>>
  /\ UNCHANGED callerVars

\* A listing page answers: paginate appends it and requests the next page
\* while the service names one; after the last page getUserRepos returns
\* the whole listing.
ListPageOk ==
  /\ pc = "listing"
  /\ LET page == SubSeq(account, Len(fetched) + 1,
                        Min(Len(fetched) + PerPage, Len(account)))
         all  == fetched \o page
     IN  /\ fetched' = all
         /\ IF Len(all) < Len(account)
            THEN pc' = "listing" /\ remoteCalls' = remoteCalls + 1 /\ repos' = repos
            ELSE pc' = "listed" /\ remoteCalls' = remoteCalls /\ repos' = all
  /\ UNCHANGED <<exitCode, csvCalls, csvRecords, fate, account, fetchCommitCount, octokit, username>>
  /\ UNCHANGED <<processor, concurrency, rpc, rejection, i, results, batch, task, log, events, invocations,
                 chunkStarts>>
  /\ UNCHANGED callerVars

\* A listing page rejects: paginate rejects, getUserRepos rethrows, run exits.
ListPageFail ==
  /\ pc = "listing"
  /\ Exit1
  /\ UNCHANGED <<fetched, csvCalls, csvRecords, remoteCalls, fate, account,
                 fetchCommitCount, octokit, username>>
  /\ UNCHANGED runnerVars
  /\ UNCHANGED callerVars

\* processRepositories, after getUserRepos returned:
\* processConcurrently(repos, processRepo, CONCURRENCY_LIMIT).
ProcessRepositories ==
  /\ pc = "listed"
  /\ pc' = "enrich"
  /\ ProcessConcurrently(repos, "processRepo", CONCURRENCY_LIMIT)
  /\ UNCHANGED <<exitCode, fetched, csvCalls, csvRecords, fate, account,
                 fetchCommitCount, octokit, username>>
  /\ UNCHANGED callerVars

\* A faulty variant of GenerateCSV: processRepositories is not awaited to
\* its end.
GenerateCSVUnawaited ==
  /\ pc = "enrich"
  /\ rpc \in {"await", "returned"}
  /\ pc' = "csv"
  /\ csvCalls' = csvCalls + 1
  /\ csvRecords' = results
  /\ UNCHANGED <<exitCode, fetched, remoteCalls, fate, account, fetchCommitCount, octokit, username>>
  /\ UNCHANGED runnerVars
  /\ UNCHANGED callerVars

\* run, after processRepositories returned: generateCSV requests
\* writeRecords(repositories).
GenerateCSV ==
  /\ pc = "enrich"
  /\ rpc = "returned"
  /\ pc' = "csv"
  /\ csvCalls' = csvCalls + 1
  /\ csvRecords' = results
  /\ UNCHANGED <<exitCode, fetched, remoteCalls, fate, account, fetchCommitCount, octokit, username>>
  /\ UNCHANGED runnerVars
  /\ UNCHANGED callerVars

\* writeRecords resolves: the summary is printed and run returns.
WriteRecordsOk ==
  /\ pc = "csv"
  /\ pc' = "done"
  /\ UNCHANGED <<exitCode, fetched, csvCalls, csvRecords, remoteCalls, fate,
                 account, fetchCommitCount, octokit, username>>
  /\ UNCHANGED runnerVars
  /\ UNCHANGED callerVars

\* writeRecords rejects: run's catch block exits.
WriteRecordsFail ==
  /\ pc = "csv"
  /\ Exit1
  /\ UNCHANGED <<fetched, csvCalls, csvRecords, remoteCalls, fate, account,
                 fetchCommitCount, octokit, username>>
  /\ UNCHANGED runnerVars
  /\ UNCHANGED callerVars

\* ------------------------------------------------- a direct caller
\* A caller of the exported class calls processConcurrently itself, on
\* the account's repositories, with a limit of its own and a processor of
\* its own: one that does what processRepo does, or one that does the same
\* but may throw ("raising").
DirectCall(proc, c) ==
  /\ pc = "ready"
  /\ pc' = "direct"
  /\ ProcessConcurrently(account, proc, c)
  /\ UNCHANGED <<exitCode, fetched, csvCalls, csvRecords, fate, account,
                 fetchCommitCount, octokit, username>>
  /\ UNCHANGED callerVars

\* After a call with limit 1 returned, the caller repeats the call on the
\* same items with a limit c >= N.  The remote service answers for each
\* repository as it did the first time (fate is kept).
CallAgain(c) ==
  /\ pc = "direct"
  /\ rpc = "returned"
  /\ callNo = 1
  /\ concurrency = 1
  /\ c >= Len(repos)
  /\ callNo' = 2
  /\ prevResults' = results
  /\ ProcessConcurrently(repos, processor, c)
  /\ UNCHANGED <<fate, account, fetchCommitCount, octokit, username>>
  /\ UNCHANGED progVars

Next ==
  \/ Construct
  \/ Run
  \/ AuthOk
  \/ AuthFail
  \/ UserAuthOk
  \/ UserAuthFail
  \/ ListPageOk
  \/ ListPageFail
  \/ ProcessRepositories
  \/ GenerateCSV
  \/ WriteRecordsOk
  \/ WriteRecordsFail
  \/ \E proc \in Processors, c \in Limits : DirectCall(proc, c)
  \/ \E c \in Limits : CallAgain(c)
  \/ Resume
  \/ \E g \in 1..MaxN : RepoGetOk(g)
  \/ \E g \in 1..MaxN : RepoGetFail(g)
  \/ \E g \in 1..MaxN : ListCommitsOk(g)
  \/ \E g \in 1..MaxN : ListCommitsFail(g)
  \/ \E g \in 1..MaxN : PaginateOk(g)
  \/ \E g \in 1..MaxN : PaginateFail(g)
  \/ \E g \in 1..MaxN : TransformRaises(g)

Spec == Init /\ [][Next]_vars

\* The remote service answers the call the transform at position g awaits.
Answer(g) ==
  \/ RepoGetOk(g)
  \/ RepoGetFail(g)
  \/ ListCommitsOk(g)
  \/ ListCommitsFail(g)
  \/ PaginateOk(g)
  \/ PaginateFail(g)

\* The program under a remote service that answers every enrichment call
\* and an event loop that runs every continuation that is ready: the
\* resumption of processConcurrently after its await and that of run after
\* processRepositories.
FairSpec ==
  /\ Spec
  /\ \A g \in 1..MaxN : WF_vars(Answer(g))
  /\ WF_vars(Resume)
  /\ WF_vars(GenerateCSV)


\* ========================================================= properties
\* The remote service made a call of position g fail.
Failed(g) == fate[g] \in {"detailFail", "commitsFail", "pageFail"}

\* The transform at position g has settled.
Done(g) == g \in DOMAIN task /\ task[g].st = "done"

\* Transforms started and not yet settled.
InFlight == Cardinality({g \in DOMAIN task : task[g].st \notin {"done", "raised"}})

\* The 0-based chunk a position belongs to under the limit in use.
ChunkOf(g) == (g - 1) \div concurrency

\* A progress line for position h has been printed.
Announced(h) == \E k \in 1..Len(log) : log[k][1] = h

\* rec carries the enrichment of a repository whose calls all succeeded.
EnrichedFrom(rec, repo) ==
  LET h == History(repo.name)
  IN  /\ rec.lastCommitDate = (IF h = <<>> THEN NULL ELSE h[1])
      /\ rec.commitCount = (IF fetchCommitCount THEN Len(h) ELSE 0 - 1)

\* rec carries the zero-valued enrichment.
ZeroValued(rec) == rec.commitCount = 0 /\ rec.lastCommitDate = NULL

Statics ==
  {"name", "fullName", "private", "archived", "fork", "forkedFrom", "description",
   "url", "stars", "forks", "language", "createdAt", "updatedAt", "size"}

\* rec is a report record built from descriptor repo.
BuiltFrom(rec, repo) ==
  \A f \in Statics : rec[f] = RepoData(repo, CommitInfoFailed)[f]

\* The program (run) is executing, not a direct caller.
InProgram == pc # "direct"

\* C1: when processConcurrently returns (limit >= 1, transform never raises),
\* results has exactly N entries and results[g] is the output of the transform
\* that was invoked on items[g], whatever order the transforms settled in.
C1_ResultsInInputOrder ==
  (rpc = "returned" /\ concurrency >= 1) =>
    /\ Len(results) = Len(repos)
    /\ \A g \in 1..Len(repos) :
         /\ Done(g)
         /\ task[g].item = repos[g]
         /\ results[g] = task[g].out[1]

\* A call on three items in two chunks has returned, the first item's
\* enrichment failed and the second's did not.
C1_Witness ==
  /\ rpc = "returned"
  /\ concurrency = 2
  /\ Len(repos) = 3
  /\ Len(results) = 3
  /\ results[1].commitCount = 0
  /\ results[2].commitCount # 0

\* C2: with a limit >= 1, at most limit transforms are started and unsettled
\* in every reachable state.
C2_InFlightAtMostLimit == concurrency >= 1 => InFlight <= concurrency

\* More items than the limit, and the limit is reached.
C2_Witness ==
  /\ concurrency = 2
  /\ Len(repos) > concurrency
  /\ InFlight = concurrency

\* C3: chunk boundaries are barriers: when a transform of a later chunk has
\* been started, or its progress line printed, every transform of every
\* earlier chunk has settled.
C3_ChunkBarrier ==
  concurrency >= 1 =>
    \A g, h \in 1..Len(repos) :
      (ChunkOf(g) < ChunkOf(h) /\ (h \in DOMAIN task \/ Announced(h))) => Done(g)

\* The second chunk of a three-item call with limit 2 is in flight, after a
\* first chunk in which an enrichment failed.
C3_Witness ==
  /\ concurrency = 2
  /\ Len(repos) = 3
  /\ Awaiting(3, "get")
  /\ Announced(3)
  /\ Failed(2)

\* C4: a transform whose remote call failed (detail fetch, latest-commit
\* fetch or pagination) settles with commitCount 0 and lastCommitDate null;
\* every transform settles with a value; the batch returns N records, the
\* failed ones zero-valued and every other one carrying its repository's
\* own enrichment.
C4_FailureIsolated ==
  /\ \A g \in DOMAIN task :
       Done(g) =>
         /\ Len(task[g].out) = 1
         /\ fate[g] # "unknown"
         /\ Failed(g) => ZeroValued(task[g].out[1])
         /\ fate[g] = "ok" => EnrichedFrom(task[g].out[1], task[g].item)
  /\ (rpc = "returned" /\ concurrency >= 1) =>
       /\ Len(results) = Len(repos)
       /\ \A g \in 1..Len(repos) :
            /\ Failed(g) => ZeroValued(results[g])
            /\ ~Failed(g) => EnrichedFrom(results[g], repos[g])

\* A three-item batch has returned in which one detail fetch and one
\* latest-commit fetch failed and one enrichment succeeded with a date.
C4_Witness ==
  /\ rpc = "returned"
  /\ Len(results) = 3
  /\ \E g, h, k \in 1..3 :
       /\ fate[g] = "detailFail"
       /\ fate[h] = "commitsFail"
       /\ fate[k] = "ok"
       /\ results[k].lastCommitDate # NULL

C6_ReportMatchesListing ==
  InProgram =>
    /\ csvCalls <= 1
    /\ csvCalls = 1 =>
         /\ pc \in {"csv", "done", "exited"}
         /\ rpc = "returned"
         /\ csvRecords = results
         /\ Len(csvRecords) = Len(account)
         /\ \A g \in 1..Len(account) : Done(g) /\ BuiltFrom(csvRecords[g], account[g])
    /\ pc = "done" => (exitCode = 0 /\ csvCalls = 1)
    /\ (pc = "exited" /\ rpc # "idle") => (csvCalls = 1 /\ rpc = "returned")

\* A run over three repositories has ended normally although one
\* enrichment failed.
C6_Witness ==
  /\ pc = "done"
  /\ Len(account) = 3
  /\ \E g, h \in 1..3 : Failed(g) /\ fate[h] = "ok"

\* C7: in a run of the program, no transform is invoked and no progress line
\* printed before getUserRepos has returned, and what it returned is the
\* complete listing; a run that ended before the listing returned has exit
\* code 1, invoked no transform and wrote no CSV.
C7_NoEnrichmentOnPartialListing ==
  InProgram =>
    /\ pc \in {"new", "ready", "auth", "userAuth", "listing", "listed"} =>
         (rpc = "idle" /\ invocations = 0 /\ task = <<>> /\ log = <<>>)
    /\ rpc # "idle" => (repos = account /\ fetched = account)
    /\ (pc = "exited" /\ rpc = "idle") =>
         (exitCode = 1 /\ invocations = 0 /\ task = <<>> /\ csvCalls = 0)

\* The listing failed after a first page had been fetched.
C7_Witness ==
  /\ pc = "exited"
  /\ Len(fetched) >= 1
  /\ Len(fetched) < Len(account)
  /\ invocations = 0

\* C8: the call with a limit c >= N returns, value for value, what the call
\* with limit 1 returned on the same items.
C8_LimitDoesNotChangeOutput ==
  (callNo = 2 /\ rpc = "returned") => results = prevResults

\* The repeated call on three items, with limit 3, has returned, with a
\* failed and a successful enrichment among them.
C8_Witness ==
  /\ callNo = 2
  /\ rpc = "returned"
  /\ concurrency = 3
  /\ Len(repos) = 3
  /\ Len(results) = 3
  /\ \E g, h \in 1..3 : Failed(g) /\ fate[h] = "ok"

\* C9: called with a limit <= 0, processConcurrently rejects or behaves as
\* with limit 1: while it awaits a batch, the batch holds exactly one item
\* and the loop index has advanced by one per chunk started, so that the
\* call finishes after N chunks.
C9_NonPositiveLimitRejectedOrClamped ==
  (concurrency <= 0 /\ rpc = "await") =>
    \/ rpc = "rejected"
    \/ (Len(batch) = 1 /\ i = chunkStarts - 1 /\ chunkStarts <= Len(repos))

\* C10: with no items, processConcurrently (limit >= 1) returns an empty
\* sequence at once: it never awaits, invokes no transform, prints no
\* progress line and starts no chunk.
C10_EmptyInput ==
  (Len(repos) = 0 /\ rpc # "idle" /\ concurrency >= 1) =>
    /\ rpc = "returned"
    /\ results = <<>>
    /\ invocations = 0
    /\ log = <<>>
    /\ task = <<>>
    /\ chunkStarts = 0

\* A direct call on no items with limit 2 has returned.
C10_Witness ==
  /\ pc = "direct"
  /\ rpc = "returned"
  /\ Len(account) = 0
  /\ concurrency = 2
  /\ results = <<>>

\* C11: the launch events come in pairs, one pair per item launched, in
\* input order 1, 2, ...: the progress line carrying the item's 1-based
\* position, the total N and the item's name, immediately followed by the
\* invocation of the processor on that very item; when the call (limit >= 1)
\* returns there are exactly N progress lines, the N transforms invoked are
\* those of positions 1..N, and what is returned is their outputs.
C11_OneProgressLinePerItem ==
  concurrency >= 1 =>
    /\ Len(events) = 2 * Len(log)
    /\ Len(log) = invocations
    /\ DOMAIN task = 1..Len(log)
    /\ \A k \in 1..Len(log) :
         /\ log[k] = <<k, Len(repos), repos[k].name>>
         /\ events[2 * k - 1] = <<"progress", k, Len(repos), repos[k].name>>
         /\ events[2 * k] = <<"invoke", k, Len(repos), repos[k].name>>
         /\ task[k].item = repos[k]
    /\ rpc = "returned" =>
         /\ Len(log) = Len(repos)
         /\ results = Outputs([k \in 1..Len(repos) |-> k], task)

\* A call on three items with limit 2 has returned after printing three
\* progress lines, the last one for the single item of the second chunk.
C11_Witness ==
  /\ rpc = "returned"
  /\ concurrency = 2
  /\ Len(repos) = 3
  /\ Len(log) = 3
  /\ events[5] = <<"progress", 3, 3, repos[3].name>>
  /\ events[6][1] = "invoke"

\* The record processRepo builds for repo when every call of its
\* enrichment succeeds, under the given flag.
SuccessRecord(repo, flag) ==
  RepoData(repo, CommitInfo(ListCommits(repo.name, 1),
                            ListCommits(repo.name, Len(History(repo.name))), flag))

\* Every enrichment record getRepoCommitInfo can return for a repository of
\* the account.
Infos ==
  {CommitInfoFailed} \cup
  {CommitInfo(ListCommits(Names[k], 1), ListCommits(Names[k], Len(History(Names[k]))), flag) :
     k \in 1..MaxN, flag \in BOOLEAN}

\* The static fields of a record built from a descriptor are the same
\* whatever enrichment record it is built with.
StaticsIgnoreEnrichment ==
  \A k \in 1..MaxN : \A info \in Infos : \A f \in Statics :
    RepoData(Repo(k), info)[f] = SuccessRecord(Repo(k), TRUE)[f]

\* C12: the record of a repository whose enrichment failed is the record it
\* would have had on success with commitCount replaced by 0 and
\* lastCommitDate by null: every static field is the same, and so is the
\* set of fields; the static fields of every record are those built from
\* its own descriptor, whatever the enrichment records are; on return,
\* record g is built from descriptor g.
C12_FailureKeepsStaticFields ==
  /\ StaticsIgnoreEnrichment
  /\ \A g \in DOMAIN task :
       Done(g) =>
         LET rec == task[g].out[1]
             ok  == SuccessRecord(task[g].item, fetchCommitCount)
         IN  /\ DOMAIN rec = Statics \cup {"commitCount", "lastCommitDate"}
             /\ \A f \in Statics : rec[f] = ok[f]
             /\ rec.name = task[g].item.name
             /\ rec.stars = task[g].item.stargazers_count
             /\ Failed(g) =>
                  rec = [ok EXCEPT !.commitCount = 0, !.lastCommitDate = NULL]
  /\ (rpc = "returned" /\ concurrency >= 1) =>
       \A g \in 1..Len(repos) :
         \A f \in Statics : results[g][f] = SuccessRecord(repos[g], fetchCommitCount)[f]

\* The program has handed writeRecords the record of a fork whose detail
\* fetch failed: its parent, stars and language are reported, and the
\* record differs from the one of a successful enrichment.
C12_Witness ==
  /\ csvCalls = 1
  /\ \E g \in 1..Len(csvRecords) :
       /\ fate[g] = "detailFail"
       /\ csvRecords[g].forkedFrom = "up/alpha"
       /\ csvRecords[g].stars = 1
       /\ csvRecords[g].language = "JavaScript"
       /\ ZeroValued(csvRecords[g])
       /\ csvRecords[g] # SuccessRecord(account[g], fetchCommitCount)

\* C13: in a run of the program as shipped, the commitCount handed to
\* writeRecords for a repository whose enrichment succeeded is the number of
\* commits on its default branch.
C13_CommitCountIsTotal ==
  (InProgram /\ csvCalls = 1 /\ fetchCommitCount = FETCH_COMMIT_COUNT) =>
    \A g \in 1..Len(csvRecords) :
      fate[g] = "ok" => csvRecords[g].commitCount = Len(History(account[g].name))

\* C14: once the constructor has run without finding a token, or run has
\* been called without a username, the process has exited with code 1 and
\* no remote call has been issued, no transform invoked and nothing
\* written; a remote call is only ever issued with a client built from a
\* token and, in the program, with a username.
C14_FatalStartupBeforeAnyCall ==
  /\ ((pc # "new" /\ octokit = NULL) \/ username = "missing") =>
       /\ pc = "exited"
       /\ exitCode = 1
       /\ remoteCalls = 0
       /\ rpc = "idle"
       /\ invocations = 0
       /\ csvCalls = 0
  /\ remoteCalls > 0 =>
       /\ octokit # NULL
       /\ InProgram => username = "given"

\* The client was built from a token, run was called without a username
\* and the process has exited.
C14_Witness ==
  /\ pc = "exited"
  /\ octokit # NULL
  /\ username = "missing"
  /\ exitCode = 1
  /\ remoteCalls = 0

\* Positions whose transform has raised.
Raised == {g \in DOMAIN task : task[g].st = "raised"}

\* C15: as soon as a transform has raised, the call is rejected, with the
\* failure of a transform that raised, and it stays so: it never returns a
\* result sequence, results holds the earlier chunks only, and no
\* transform of a chunk after the one that raised is ever started nor its
\* progress line printed; a call is rejected only by a transform that
\* raised.
C15_RaisingTransformRejectsCall ==
  /\ Raised # {} =>
       /\ rpc = "rejected"
       /\ rejection \in Raised
       /\ concurrency >= 1 =>
            /\ Len(results) = ChunkOf(rejection) * concurrency
            /\ chunkStarts = ChunkOf(rejection) + 1
            /\ \A g \in 1..Len(repos) :
                 (g \in DOMAIN task \/ Announced(g)) => ChunkOf(g) <= ChunkOf(rejection)
  /\ rpc = "rejected" => Raised # {}
  /\ rpc = "returned" => (Raised = {} /\ rejection = 0)

\* A call on three items with limit 1 was rejected by the second item's
\* transform: the first chunk's result is held, the third item was never
\* started.
C15_Witness ==
  /\ rpc = "rejected"
  /\ Len(repos) = 3
  /\ concurrency = 1
  /\ rejection = 2
  /\ Len(results) = 1
  /\ DOMAIN task = {1, 2}
  /\ ~Announced(3)

\* The sizes of a sequence of chunks.
Sizes(ch) == [k \in 1..Len(ch) |-> Len(ch[k])]

\* Twenty-five items split under the program's limit.
ScenarioSizes == Sizes(Chunks([k \in 1..25 |-> k], CONCURRENCY_LIMIT, 0))

\* C16: with a limit C >= 1 the batches the loop takes are the consecutive
\* runs of C items in input order, the last one holding the 1..C items that
\* remain, ceil(N/C) batches in all; the batch awaited is the one numbered
\* by the chunk starts so far, and on return there have been exactly
\* ceil(N/C) chunk starts; twenty-five items under the limit 10 give
\* batches of 10, 10 and 5.
C16_ConsecutiveChunks ==
  /\ ScenarioSizes = <<10, 10, 5>>
  /\ concurrency >= 1 =>
       LET ch == Chunks(repos, concurrency, 0)
           n  == Len(repos)
       IN  /\ Len(ch) = (n + concurrency - 1) \div concurrency
           /\ \A k \in 1..Len(ch) :
                /\ ch[k] = SubSeq(repos, (k - 1) * concurrency + 1,
                                  Min(k * concurrency, n))
                /\ k < Len(ch) => Len(ch[k]) = concurrency
                /\ Len(ch[k]) \in 1..concurrency
           /\ chunkStarts <= Len(ch)
           /\ rpc = "await" => batch = ch[chunkStarts]
           /\ rpc = "returned" => chunkStarts = Len(ch)

\* The second and last chunk of three items under limit 2 is awaited: it
\* holds the one remaining item.
C16_Witness ==
  /\ rpc = "await"
  /\ concurrency = 2
  /\ Len(repos) = 3
  /\ chunkStarts = 2
  /\ batch = <<repos[3]>>

\* The order in which getRepoCommitInfo can issue its calls.
CallOrder == <<"get", "commits", "paginate">>

\* Remote calls of the transforms at the given positions that are issued
\* and not yet answered.
RECURSIVE PendingCalls(_)
PendingCalls(S) ==
  IF S = {}
  THEN 0
  ELSE LET g == CHOOSE h \in S : TRUE
       IN  task[g].pending + PendingCalls(S \ {g})

\* C17: the calls a transform has issued are an initial part of detail
\* fetch, latest-commit fetch, pagination (the last one with the flag on
\* only); each is issued when the one before has answered: a transform has
\* at most one call unanswered, the one it issued last; the latest-commit
\* fetch is issued only when the detail fetch has succeeded, never when it
\* failed; with a limit C >= 1 at most C enrichment calls are unanswered.
C17_SequentialCalls ==
  /\ \A g \in DOMAIN task :
       LET t == task[g]
           n == Len(t.calls)
       IN  /\ n >= 1
           /\ t.calls = SubSeq(CallOrder, 1, n)
           /\ ~fetchCommitCount => n <= 2
           /\ t.pending \in {0, 1}
           /\ t.pending = 1 <=> t.st \in {"get", "commits", "paginate"}
           /\ t.pending = 1 => t.st = t.calls[n]
           /\ fate[g] = "detailFail" => t.calls = <<"get">>
           /\ n >= 2 => (fate[g] # "detailFail" /\ t.st # "get")
  /\ concurrency >= 1 => PendingCalls(DOMAIN task) <= concurrency

\* Three transforms under limit 3: the first one's detail fetch failed and
\* it issued nothing more, the second awaits its latest-commit fetch, the
\* third still its detail fetch.
C17_Witness ==
  /\ concurrency = 3
  /\ Len(repos) = 3
  /\ fate[1] = "detailFail"
  /\ Done(1)
  /\ task[1].calls = <<"get">>
  /\ Awaiting(2, "commits")
  /\ task[2].calls = <<"get", "commits">>
  /\ Awaiting(3, "get")
  /\ PendingCalls(DOMAIN task) = 2

\* C18: with a limit >= 1 and a remote service that answers every call, a
\* call of processConcurrently that awaits a batch (of transforms that do
\* not raise) eventually returns, and a run that has reached the
\* enrichment eventually hands its records to writeRecords; whenever every
\* started transform has settled while the call awaits, the resumption
\* that launches the next chunk or returns is enabled.
C18_EnrichmentTerminates ==
  /\ (rpc = "await" /\ concurrency >= 1 /\ processor = "processRepo") ~> (rpc = "returned")
  /\ (pc = "enrich") ~> (csvCalls = 1)
  /\ []((rpc = "await" /\ concurrency >= 1 /\ InFlight = 0 /\ Raised = {})
          => ENABLED Resume)

\* A run over three repositories has reached writeRecords although an
\* enrichment failed on the way.
C18_Witness ==
  /\ InProgram
  /\ csvCalls = 1
  /\ rpc = "returned"
  /\ chunkStarts = 1
  /\ Len(repos) = 3
  /\ \E g \in 1..3 : Failed(g)

\* C19: in the build as shipped (flag off), every record a transform
\* returns, every record returned by the call and every record handed to
\* writeRecords has commitCount -1 or 0: 0 exactly when a remote call of
\* its enrichment failed, -1 exactly when the enrichment succeeded; a
\* record with commitCount 0 has a null lastCommitDate.
C19_ShippedCommitCount ==
  /\ FETCH_COMMIT_COUNT = FALSE
  /\ fetchCommitCount = FETCH_COMMIT_COUNT =>
       /\ \A g \in DOMAIN task :
            Done(g) =>
              LET rec == task[g].out[1]
              IN  /\ rec.commitCount \in {0 - 1, 0}
                  /\ rec.commitCount = 0 <=> Failed(g)
                  /\ rec.commitCount = 0 - 1 <=> fate[g] = "ok"
                  /\ rec.commitCount = 0 => rec.lastCommitDate = NULL
       /\ (rpc = "returned" /\ concurrency >= 1) =>
            \A g \in 1..Len(results) :
              /\ results[g].commitCount = (IF Failed(g) THEN 0 ELSE 0 - 1)
              /\ results[g].commitCount = 0 => results[g].lastCommitDate = NULL
       /\ csvCalls = 1 =>
            \A g \in 1..Len(csvRecords) :
              /\ csvRecords[g].commitCount = (IF Failed(g) THEN 0 ELSE 0 - 1)
              /\ csvRecords[g].commitCount = 0 => csvRecords[g].lastCommitDate = NULL

\* The shipped build has handed writeRecords a record with count 0 for a
\* failed enrichment, a record with count -1 and a date, and a record with
\* count -1 and no date (an empty branch).
C19_Witness ==
  /\ fetchCommitCount = FETCH_COMMIT_COUNT
  /\ csvCalls = 1
  /\ Len(csvRecords) = 3
  /\ \E g, h, k \in 1..3 :
       /\ Failed(g) /\ csvRecords[g].commitCount = 0
       /\ csvRecords[h].commitCount = 0 - 1 /\ csvRecords[h].lastCommitDate # NULL
       /\ csvRecords[k].commitCount = 0 - 1 /\ csvRecords[k].lastCommitDate = NULL

====
